---- MODULE Spec2Model ----
(***************************************************************************)
(* GtkShadow (gtk/gtkshadow.c): a reference-counted list of shadow         *)
(* elements, its resolution against a property set, its serialisation and  *)
(* the painting of a text layout under it.                                 *)
(*                                                                         *)
(* Heap objects (GtkShadow, GtkShadowElement) are records in two tables    *)
(* indexed by address; address 0 is NULL.  A pointer to a plain value      *)
(* (a GdkRGBA or a gchar string) is <<>> for NULL and <<v>> for a pointer   *)
(* to v.                                                                   *)
(* A gdouble is an integer count of halves (3 stands for 1.5), which is    *)
(* enough to tell a whole number from a fractional one.                    *)
(***************************************************************************)
EXTENDS Integers, Sequences, FiniteSets, TLC

(***************************************************************************)
(* Bounds of the model.                                                    *)
(***************************************************************************)
MaxAllocs == 5     \* objects a run from the empty heap allocates
MaxLen == 3        \* elements of a list a single call is applied to
MaxRef == 3        \* references the callers hold at once, over all lists

NULL == 0

\* Room for MaxAllocs objects of either kind, and for a list of MaxLen
\* elements next to the list resolved from it.
ShadowAddrs == 1..(IF MaxAllocs > 2 THEN MaxAllocs ELSE 2)
ElemAddrs == 1..(IF MaxAllocs > 2 * MaxLen THEN MaxAllocs ELSE 2 * MaxLen)

\* The GtkSymbolicColor objects the callers own, and the GdkRGBA values a
\* property set can resolve them to.
SymColors == {1, 2}
Colors == {0, 1, 2}

\* g_slice_new0 (GdkRGBA): every channel zero.
ZeroColor == 0

VARIABLES
  shadows,    \* GtkShadow objects by address
  elems,      \* GtkShadowElement objects by address
  symrefs,    \* references this file holds on each GtkSymbolicColor
  held,       \* references the callers hold on each GtkShadow
  last,       \* the most recent call: operation, arguments, return value
  resolver,   \* gtk_symbolic_color_resolve calls made by the most recent call
  cr,         \* the cairo context after the most recent paint call
  text,       \* what the most recent _gtk_shadow_to_string returned and left allocated
  quota       \* the objects the run may allocate in all

vars == <<shadows, elems, symrefs, held, last, resolver, cr, text, quota>>

\* The three tables that gtkshadow.c reads and writes.
Heap == [shadows |-> shadows, elems |-> elems, symrefs |-> symrefs]

(***************************************************************************)
(* Integer widths and conversions.                                         *)
(*                                                                         *)
(* guint ref_count is held as the signed 32-bit integer with the same bit  *)
(* pattern (4294967295 is -1): ++, -- and the test against 0 act on the    *)
(* bit pattern, so they are plain + 1, - 1 and = 0 here, and the wrap of   *)
(* 0 - 1 is the value -1.                                                  *)
(***************************************************************************)
INT16_MIN == -32768
INT16_MAX == 32767

\* gint16, promoted to int, -> gdouble.
IntToDouble(i) == 2 * i

\* gdouble -> integer part, toward zero.
Trunc(d) == IF d >= 0 THEN d \div 2 ELSE -((-d) \div 2)

\* Two's-complement reduction of an integer to 16 bits.
Wrap16(n) == ((n - INT16_MIN) % 65536) + INT16_MIN

\* Clamp to the range of gint16.
Sat16(n) == IF n < INT16_MIN THEN INT16_MIN ELSE IF n > INT16_MAX THEN INT16_MAX ELSE n

\* What a build does with an out-of-range gdouble -> gint16 conversion.
Builds == {"wrap", "saturate"}

\* gdouble -> gint16: the fraction is discarded; a value outside the range
\* of gint16 is undefined behaviour, and the build decides.
DoubleToInt16(d, build) ==
  LET n == Trunc(d)
  IN  IF n >= INT16_MIN /\ n <= INT16_MAX THEN n
      ELSE IF build = "wrap" THEN Wrap16(n) ELSE Sat16(n)

(***************************************************************************)
(* GtkShadowElement.                                                       *)
(***************************************************************************)
\* An address that holds no object.
NoElement ==
  [state |-> "unalloc", hoffset |-> 0, voffset |-> 0, radius |-> 0, spread |-> 0,
   inset |-> FALSE, color |-> ZeroColor, color_set |-> FALSE, symbolic_color |-> NULL]

NoShadow == [state |-> "unalloc", elements |-> <<>>, ref_count |-> 0, resolved |-> FALSE]

\* g_slice_new: the lowest address never handed out (addresses are not reused,
\* so a freed object stays distinguishable from every later one).
FreshAddr(table) == CHOOSE a \in DOMAIN table :
                      /\ table[a].state = "unalloc"
                      /\ \A b \in DOMAIN table : b < a => table[b].state # "unalloc"

\* The objects allocated so far, freed ones included.
Allocated(h) ==
  Cardinality({a \in DOMAIN h.shadows : h.shadows[a].state # "unalloc"})
    + Cardinality({a \in DOMAIN h.elems : h.elems[a].state # "unalloc"})

\* g_slice_free: the object is gone and what its memory holds no longer
\* matters; freeing what is not a live object corrupts the heap.
FreeElement(e) == [NoElement EXCEPT !.state = IF e.state = "live" THEN "freed" ELSE "corrupt"]
FreeShadow(s) == [NoShadow EXCEPT !.state = IF s.state = "live" THEN "freed" ELSE "corrupt"]

\* gtk_symbolic_color_ref / gtk_symbolic_color_unref, as counted by this file.
SymbolicColorRef(h, c) == [h EXCEPT !.symrefs[c] = @ + 1]
SymbolicColorUnref(h, c) == [h EXCEPT !.symrefs[c] = @ - 1]

\* shadow_element_new: returns the heap with the new element and its address.
shadow_element_new(h, hoffset, voffset, radius, spread, inset, color, symbolic_color, build) ==
  LET a == FreshAddr(h.elems)
      h1 == [h EXCEPT !.elems[a] =
               [state |-> "live",
                hoffset |-> DoubleToInt16(hoffset, build),
                voffset |-> DoubleToInt16(voffset, build),
                radius |-> DoubleToInt16(radius, build),
                spread |-> DoubleToInt16(spread, build),
                inset |-> inset,
                color |-> ZeroColor,
                color_set |-> FALSE,
                symbolic_color |-> NULL]]
      h2 == IF symbolic_color # NULL
            THEN [SymbolicColorRef(h1, symbolic_color)
                    EXCEPT !.elems[a].symbolic_color = symbolic_color]
            ELSE h1
      h3 == IF color # <<>>
            THEN [h2 EXCEPT !.elems[a].color = color[1], !.elems[a].color_set = TRUE]
            ELSE h2
  IN  [heap |-> h3, ret |-> a]

\* shadow_element_free without the release of the symbolic color.
shadow_element_free_keeps_ref(h, e) ==
  [h EXCEPT !.elems[e] = FreeElement(@)]

\* shadow_element_free
shadow_element_free(h, e) ==
  LET h1 == IF h.elems[e].symbolic_color # NULL
            THEN SymbolicColorUnref(h, h.elems[e].symbolic_color)
            ELSE h
  IN  [h1 EXCEPT !.elems[e] = FreeElement(@)]

(***************************************************************************)
(* GtkShadow: construction and reference counting.                         *)
(***************************************************************************)
\* _gtk_shadow_new
gtk_shadow_new(h) ==
  LET a == FreshAddr(h.shadows)
  IN  [heap |-> [h EXCEPT !.shadows[a] =
                   [state |-> "live", elements |-> <<>>, ref_count |-> 1,
                    resolved |-> FALSE]],
       ret |-> a]

\* _gtk_shadow_ref
gtk_shadow_ref(h, shadow) ==
  IF shadow = NULL
  THEN [heap |-> h, ret |-> NULL]
  ELSE [heap |-> [h EXCEPT !.shadows[shadow].ref_count = @ + 1],
        ret |-> shadow]

\* g_list_free_full (list, shadow_element_free): every element, head first.
RECURSIVE g_list_free_full(_, _)
g_list_free_full(h, list) ==
  IF list = <<>> THEN h
  ELSE g_list_free_full(shadow_element_free(h, Head(list)), Tail(list))

\* _gtk_shadow_unref destroying the list while one reference is left.
gtk_shadow_unref_early(h, shadow) ==
  IF shadow = NULL THEN h
  ELSE LET h1 == [h EXCEPT !.shadows[shadow].ref_count = @ - 1]
       IN  IF h1.shadows[shadow].ref_count <= 1
           THEN [g_list_free_full(h1, h1.shadows[shadow].elements)
                   EXCEPT !.shadows[shadow] = FreeShadow(@)]
           ELSE h1

\* _gtk_shadow_unref
gtk_shadow_unref(h, shadow) ==
  IF shadow = NULL THEN h
  ELSE LET h1 == [h EXCEPT !.shadows[shadow].ref_count = @ - 1]
       IN  IF h1.shadows[shadow].ref_count = 0
           THEN [g_list_free_full(h1, h1.shadows[shadow].elements)
                   EXCEPT !.shadows[shadow] = FreeShadow(@)]
           ELSE h1

\* _gtk_shadow_get_resolved
gtk_shadow_get_resolved(h, shadow) == h.shadows[shadow].resolved

(***************************************************************************)
(* GtkShadow: append and resolve.                                          *)
(***************************************************************************)
\* g_list_append
g_list_append(list, data) == Append(list, data)

\* _gtk_shadow_append taking an append as the end of the resolved state.
gtk_shadow_append_clears_flag(h, shadow, hoffset, voffset, radius, spread, inset, color, build) ==
  IF shadow = NULL THEN h
  ELSE IF color = NULL THEN h
  ELSE LET n == shadow_element_new(h, hoffset, voffset, radius, spread, inset,
                                   <<>>, color, build)
       IN  [n.heap EXCEPT !.shadows[shadow].elements = g_list_append(@, n.ret),
                          !.shadows[shadow].resolved = FALSE]

\* _gtk_shadow_append without the test of the symbolic color.
gtk_shadow_append_unchecked(h, shadow, hoffset, voffset, radius, spread, inset, color, build) ==
  IF shadow = NULL THEN h
  ELSE LET n == shadow_element_new(h, hoffset, voffset, radius, spread, inset,
                                   <<>>, color, build)
       IN  [n.heap EXCEPT !.shadows[shadow].elements = g_list_append(@, n.ret)]

\* _gtk_shadow_append putting the new element at the head of the list.
gtk_shadow_append_prepends(h, shadow, hoffset, voffset, radius, spread, inset, color, build) ==
  IF shadow = NULL THEN h
  ELSE IF color = NULL THEN h
  ELSE LET n == shadow_element_new(h, hoffset, voffset, radius, spread, inset,
                                   <<>>, color, build)
       IN  [n.heap EXCEPT !.shadows[shadow].elements = <<n.ret>> \o @]

\* _gtk_shadow_append
gtk_shadow_append(h, shadow, hoffset, voffset, radius, spread, inset, color, build) ==
  IF shadow = NULL THEN h
  ELSE IF color = NULL THEN h
  ELSE LET n == shadow_element_new(h, hoffset, voffset, radius, spread, inset,
                                   <<>>, color, build)
       IN  [n.heap EXCEPT !.shadows[shadow].elements = g_list_append(@, n.ret)]

\* The color a symbolic color stands for where it is defined.
ColorOf(symbolic_color) == symbolic_color

\* A GtkStyleProperties, as far as this file can tell one from another:
\* what each symbolic color resolves to, <<>> when it does not resolve.
PropertySets == [SymColors -> {<<>>} \cup {<<ColorOf(c)>> : c \in SymColors}]

\* gtk_symbolic_color_resolve (color, props, &resolved): <<>> for FALSE,
\* <<c>> for TRUE with c stored through the out parameter.
gtk_symbolic_color_resolve(symbolic_color, props) ==
  IF symbolic_color = NULL THEN <<>> ELSE props[symbolic_color]

\* The failure branch without the release of the list under construction.
ResolveFailLeak(h, resolved_shadow, log) ==
  [heap |-> h, ret |-> NULL, log |-> log]

\* The failure branch of the loop of _gtk_shadow_resolve: the list under
\* construction is released and NULL returned.
ResolveFail(h, resolved_shadow, log) ==
  [heap |-> gtk_shadow_unref(h, resolved_shadow), ret |-> NULL, log |-> log]

\* The copy passing the radius for the spread as well.
ResolvedElementNewRadiusTwice(h, element, color) ==
  shadow_element_new(h,
                     IntToDouble(element.hoffset), IntToDouble(element.voffset),
                     IntToDouble(element.radius), IntToDouble(element.radius),
                     element.inset, color, NULL,
                     CHOOSE b \in Builds : TRUE)

\* The element _gtk_shadow_resolve builds for `element` once its symbolic
\* color resolved to `color` (a pointer to the GdkRGBA).
ResolvedElementNew(h, element, color) ==
  shadow_element_new(h,
                     IntToDouble(element.hoffset), IntToDouble(element.voffset),
                     IntToDouble(element.radius), IntToDouble(element.spread),
                     element.inset, color, NULL,
                     \* every value is a gint16 already: no build is consulted
                     CHOOSE b \in Builds : TRUE)

\* The loop going on to the remaining cells after a failure, and giving up
\* only at the end of the list.
RECURSIVE ResolveLoopNoShortCircuit(_, _, _, _, _)
ResolveLoopNoShortCircuit(h, l, props, resolved_shadow, log) ==
  IF l = <<>>
  THEN [heap |-> h, ret |-> resolved_shadow, log |-> log]
  ELSE LET element == h.elems[Head(l)]
           color == gtk_symbolic_color_resolve(element.symbolic_color, props)
           log1 == Append(log, [element |-> Head(l),
                                symbolic_color |-> element.symbolic_color,
                                color |-> color])
       IN  IF color = <<>>
           THEN LET r == ResolveLoopNoShortCircuit(h, Tail(l), props, resolved_shadow, log1)
                IN  IF r.ret = NULL THEN r
                    ELSE ResolveFail(r.heap, resolved_shadow, r.log)
           ELSE LET n == ResolvedElementNew(h, element, color)
                    h1 == [n.heap EXCEPT !.shadows[resolved_shadow].elements =
                                           g_list_append(@, n.ret)]
                IN  ResolveLoopNoShortCircuit(h1, Tail(l), props, resolved_shadow, log1)

\* The for loop of _gtk_shadow_resolve over the list cells from l on.  `log`
\* collects the calls of gtk_symbolic_color_resolve, in the order made.
RECURSIVE ResolveLoop(_, _, _, _, _)
ResolveLoop(h, l, props, resolved_shadow, log) ==
  IF l = <<>>
  THEN [heap |-> h, ret |-> resolved_shadow, log |-> log]
  ELSE LET element == h.elems[Head(l)]
           color == gtk_symbolic_color_resolve(element.symbolic_color, props)
           log1 == Append(log, [element |-> Head(l),
                                symbolic_color |-> element.symbolic_color,
                                color |-> color])
       IN  IF color = <<>>
           THEN ResolveFail(h, resolved_shadow, log1)
           ELSE LET n == ResolvedElementNew(h, element, color)
                    h1 == [n.heap EXCEPT !.shadows[resolved_shadow].elements =
                                           g_list_append(@, n.ret)]
                IN  ResolveLoop(h1, Tail(l), props, resolved_shadow, log1)

\* _gtk_shadow_resolve resolving in place: the source list is marked too.
gtk_shadow_resolve_marks_source(h, shadow, props) ==
  IF h.shadows[shadow].resolved
  THEN LET r == gtk_shadow_ref(h, shadow)
       IN  [heap |-> r.heap, ret |-> r.ret, log |-> <<>>]
  ELSE LET n == gtk_shadow_new(h)
           r == ResolveLoop(n.heap, n.heap.shadows[shadow].elements, props, n.ret, <<>>)
       IN  IF r.ret = NULL THEN r
           ELSE [r EXCEPT !.heap.shadows[r.ret].resolved = TRUE,
                          !.heap.shadows[shadow].resolved = TRUE]

\* _gtk_shadow_resolve handing back a resolved list without the reference.
gtk_shadow_resolve_no_ref(h, shadow, props) ==
  IF h.shadows[shadow].resolved
  THEN [heap |-> h, ret |-> shadow, log |-> <<>>]
  ELSE LET n == gtk_shadow_new(h)
           r == ResolveLoop(n.heap, n.heap.shadows[shadow].elements, props, n.ret, <<>>)
       IN  IF r.ret = NULL THEN r
           ELSE [r EXCEPT !.heap.shadows[r.ret].resolved = TRUE]

\* _gtk_shadow_resolve handing the cells' elements to the new list instead
\* of building new ones.
gtk_shadow_resolve_shares_elements(h, shadow, props) ==
  IF h.shadows[shadow].resolved
  THEN LET r == gtk_shadow_ref(h, shadow)
       IN  [heap |-> r.heap, ret |-> r.ret, log |-> <<>>]
  ELSE LET n == gtk_shadow_new(h)
           r == ResolveLoop(n.heap, n.heap.shadows[shadow].elements, props, n.ret, <<>>)
       IN  IF r.ret = NULL THEN r
           ELSE [r EXCEPT !.heap.shadows[r.ret].resolved = TRUE,
                          !.heap.shadows[r.ret].elements = h.shadows[shadow].elements]

\* _gtk_shadow_resolve
gtk_shadow_resolve(h, shadow, props) ==
  IF h.shadows[shadow].resolved
  THEN LET r == gtk_shadow_ref(h, shadow)
       IN  [heap |-> r.heap, ret |-> r.ret, log |-> <<>>]
  ELSE LET n == gtk_shadow_new(h)
           r == ResolveLoop(n.heap, n.heap.shadows[shadow].elements, props, n.ret, <<>>)
       IN  IF r.ret = NULL THEN r
           ELSE [r EXCEPT !.heap.shadows[r.ret].resolved = TRUE]

(***************************************************************************)
(* Serialisation.  A gchar string is a TLA+ string; g_string_append is \o. *)
(***************************************************************************)
Digit(n) == CASE n = 0 -> "0" [] n = 1 -> "1" [] n = 2 -> "2" [] n = 3 -> "3"
              [] n = 4 -> "4" [] n = 5 -> "5" [] n = 6 -> "6" [] n = 7 -> "7"
              [] n = 8 -> "8" [] n = 9 -> "9"

RECURSIVE NatToStr(_)
NatToStr(n) == IF n < 10 THEN Digit(n) ELSE NatToStr(n \div 10) \o Digit(n % 10)

\* printf ("%d", n)
PrintfD(n) == IF n < 0 THEN "-" \o NatToStr(-n) ELSE NatToStr(n)

\* gtk_symbolic_color_to_string: the text of a symbolic color.
gtk_symbolic_color_to_string(symbolic_color) == "@color" \o NatToStr(symbolic_color)

\* gdk_rgba_to_string: the text of a concrete color.
gdk_rgba_to_string(color) ==
  IF color = ZeroColor THEN "rgba(0,0,0,0)" ELSE "rgb(" \o NatToStr(color) \o ",0,0)"

\* shadow_element_to_string printing radius and spread only when positive.
shadow_element_to_string_positive_only(element) ==
  LET s0 == ""
      s1 == IF element.inset THEN s0 \o "inset " ELSE s0
      s2 == s1 \o PrintfD(element.hoffset) \o " " \o PrintfD(element.voffset) \o " "
      s3 == IF element.radius > 0 THEN s2 \o PrintfD(element.radius) \o " " ELSE s2
      s4 == IF element.spread > 0 THEN s3 \o PrintfD(element.spread) \o " " ELSE s3
      color_str == IF element.symbolic_color # NULL
                   THEN gtk_symbolic_color_to_string(element.symbolic_color)
                   ELSE gdk_rgba_to_string(element.color)
  IN  s4 \o color_str

\* shadow_element_to_string
shadow_element_to_string(element) ==
  LET s0 == ""
      s1 == IF element.inset THEN s0 \o "inset " ELSE s0
      s2 == s1 \o PrintfD(element.hoffset) \o " " \o PrintfD(element.voffset) \o " "
      s3 == IF element.radius # 0 THEN s2 \o PrintfD(element.radius) \o " " ELSE s2
      s4 == IF element.spread # 0 THEN s3 \o PrintfD(element.spread) \o " " ELSE s3
      color_str == IF element.symbolic_color # NULL
                   THEN gtk_symbolic_color_to_string(element.symbolic_color)
                   ELSE gdk_rgba_to_string(element.color)
  IN  s4 \o color_str

\* The loop putting each further element in front of the text so far.
RECURSIVE ToStringLoopPrepend(_, _, _, _)
ToStringLoopPrepend(h, l, str, temps) ==
  IF l = <<>>
  THEN [ret |-> <<str>>, temps |-> temps]
  ELSE LET e == shadow_element_to_string(h.elems[Head(l)])
       IN  ToStringLoopPrepend(h, Tail(l), (e \o ", ") \o str, Append(temps, e))

\* The for loop of _gtk_shadow_to_string over the list cells from l on.
\* `temps` are the strings shadow_element_to_string returned that nothing freed.
RECURSIVE ToStringLoop(_, _, _, _)
ToStringLoop(h, l, str, temps) ==
  IF l = <<>>
  THEN [ret |-> <<str>>, temps |-> temps]
  ELSE LET e == shadow_element_to_string(h.elems[Head(l)])
       IN  ToStringLoop(h, Tail(l), (str \o ", ") \o e, Append(temps, e))

\* _gtk_shadow_to_string without the early return for an empty list.
gtk_shadow_to_string_no_early_return(h, shadow) ==
  LET elements == h.shadows[shadow].elements
  IN  IF elements = <<>> THEN [ret |-> <<"">>, temps |-> <<>>]
      ELSE LET first == shadow_element_to_string(h.elems[Head(elements)])
           IN  ToStringLoop(h, Tail(elements), "" \o first, <<first>>)

\* _gtk_shadow_to_string: the returned gchar pointer, and the temporaries
\* still allocated on return.
gtk_shadow_to_string(h, shadow) ==
  LET elements == h.shadows[shadow].elements
      length == Len(elements)
  IN  IF length = 0 THEN [ret |-> <<>>, temps |-> <<>>]
      ELSE LET first == shadow_element_to_string(h.elems[Head(elements)])
               str == "" \o first
           IN  IF length = 1 THEN [ret |-> <<str>>, temps |-> <<first>>]
               ELSE ToStringLoop(h, Tail(elements), str, <<first>>)

(***************************************************************************)
(* Painting.  A cairo context is its current point, its source, the stack  *)
(* of saved graphics states (the source; the current point belongs to the  *)
(* path, which cairo_save and cairo_restore leave alone) and the calls     *)
(* made on it.                                                             *)
(***************************************************************************)
Call(name, x, y, color) == [call |-> name, x |-> x, y |-> y, color |-> color]

cairo_has_current_point(c) == c.has_current_point

cairo_move_to(c, x, y) ==
  [c EXCEPT !.has_current_point = TRUE, !.x = x, !.y = y,
            !.calls = Append(@, Call("move_to", x, y, 0))]

cairo_save(c) ==
  [c EXCEPT !.saved = <<c.source>> \o @, !.calls = Append(@, Call("save", 0, 0, 0))]

cairo_restore(c) ==
  [c EXCEPT !.source = Head(c.saved), !.saved = Tail(@),
            !.calls = Append(@, Call("restore", 0, 0, 0))]

cairo_rel_move_to(c, dx, dy) ==
  [c EXCEPT !.x = @ + dx, !.y = @ + dy,
            !.calls = Append(@, Call("rel_move_to", dx, dy, 0))]

gdk_cairo_set_source_rgba(c, color) ==
  [c EXCEPT !.source = color, !.calls = Append(@, Call("set_source_rgba", 0, 0, color))]

\* _gtk_pango_fill_layout: fills the layout at the current point with the
\* source, and leaves the current point where it was.
gtk_pango_fill_layout(c) ==
  [c EXCEPT !.calls = Append(@, Call("fill_layout", c.x, c.y, c.source))]

\* The body of the loop relying on cairo_restore to bring the current point
\* back.
PaintElementNoMoveBack(c, element) ==
  LET c1 == cairo_save(c)
      c2 == cairo_rel_move_to(c1, IntToDouble(element.hoffset),
                              IntToDouble(element.voffset))
      c3 == gdk_cairo_set_source_rgba(c2, element.color)
      c4 == gtk_pango_fill_layout(c3)
  IN  cairo_restore(c4)

\* The body of the for loop of _gtk_text_shadow_paint_layout for one element.
PaintElement(c, element) ==
  LET c1 == cairo_save(c)
      c2 == cairo_rel_move_to(c1, IntToDouble(element.hoffset),
                              IntToDouble(element.voffset))
      c3 == gdk_cairo_set_source_rgba(c2, element.color)
      c4 == gtk_pango_fill_layout(c3)
      c5 == cairo_rel_move_to(c4, IntToDouble(-element.hoffset),
                              IntToDouble(-element.voffset))
  IN  cairo_restore(c5)

\* The loop run from the first cell to the i-th instead.
RECURSIVE PaintLoopForward(_, _, _, _)
PaintLoopForward(h, elements, i, c) ==
  IF i = 0 THEN c
  ELSE PaintElement(PaintLoopForward(h, elements, i - 1, c), h.elems[elements[i]])

\* The for loop: l = g_list_last (elements); l != NULL; l = l->prev.  The
\* cell l is the i-th of the list, and i = 0 stands for NULL.
RECURSIVE PaintLoop(_, _, _, _)
PaintLoop(h, elements, i, c) ==
  IF i = 0 THEN c
  ELSE PaintLoop(h, elements, i - 1, PaintElement(c, h.elems[elements[i]]))

\* g_list_last, as the position of the cell it returns.
g_list_last(list) == Len(list)

\* _gtk_text_shadow_paint_layout
gtk_text_shadow_paint_layout(h, shadow, c) ==
  LET c1 == IF ~cairo_has_current_point(c) THEN cairo_move_to(c, 0, 0) ELSE c
      elements == h.shadows[shadow].elements
  IN  PaintLoop(h, elements, g_list_last(elements), c1)

(***************************************************************************)
(* What the three functions that only read a list store through `shadow`,  *)
(* its cells and its elements: the heap they leave.                        *)
(***************************************************************************)
\* _gtk_shadow_get_resolved: one load, no store.
GetResolvedStores(h, shadow) == h

\* _gtk_shadow_to_string: g_list_length, the loads of l->data and l->next,
\* and shadow_element_to_string, which loads the fields of the element.
ToStringStores(h, shadow) == h

\* The list turned around in place so as to walk it from its last cell.
PaintLayoutStoresReversed(h, shadow) ==
  [h EXCEPT !.shadows[shadow].elements = [i \in 1..Len(@) |-> @[Len(@) + 1 - i]]]

\* _gtk_text_shadow_paint_layout: g_list_last, the loads of l->data and
\* l->prev and of the fields of the element; every call it makes is on cr.
PaintLayoutStores(h, shadow) == h

(***************************************************************************)
(* The calls the style engine makes.  A caller passes only lists it holds  *)
(* a reference on, and releases no more references than it holds.          *)
(***************************************************************************)
Held == {s \in ShadowAddrs : held[s] > 0}

\* A context on which nothing was called yet.
Cairo(has_current_point, x, y, source) ==
  [has_current_point |-> has_current_point, x |-> x, y |-> y, source |-> source,
   saved |-> <<>>, calls |-> <<>>]

NoCairo == Cairo(FALSE, 0, 0, ZeroColor)

\* The contexts the rendering pass hands to the painter: one with no current
\* point, one with the current point at (10, 20); the source is color 1.
CairoInputs == {Cairo(FALSE, 0, 0, 1), Cairo(TRUE, 20, 40, 1)}

NoText == [ret |-> <<>>, temps |-> <<>>]

Call0(op, shadow, args, ret, flag) ==
  [op |-> op, shadow |-> shadow, args |-> args, ret |-> ret, flag |-> flag]

Commit(h) ==
  /\ shadows' = h.shadows
  /\ elems' = h.elems
  /\ symrefs' = h.symrefs

\* The heap before the first allocation.
EmptyHeap ==
  [shadows |-> [a \in ShadowAddrs |-> NoShadow],
   elems |-> [a \in ElemAddrs |-> NoElement],
   symrefs |-> [c \in SymColors |-> 0]]

\* The run may allocate n more objects.
Room(n) == Allocated(Heap) + n <= quota

\* The references the callers hold, over all lists.
RECURSIVE SumHeld(_)
SumHeld(n) == IF n = 0 THEN 0 ELSE held[n] + SumHeld(n - 1)

\* The callers may take one more reference.
CanHold == SumHeld(Cardinality(ShadowAddrs)) < MaxRef

Init ==
  /\ shadows = EmptyHeap.shadows
  /\ elems = EmptyHeap.elems
  /\ symrefs = EmptyHeap.symrefs
  /\ held = [a \in ShadowAddrs |-> 0]
  /\ last = Call0("none", NULL, <<>>, NULL, FALSE)
  /\ resolver = <<>>
  /\ cr = NoCairo
  /\ text = NoText
  /\ quota = MaxAllocs

ShadowNew ==
  /\ Room(1) /\ CanHold
  /\ LET r == gtk_shadow_new(Heap)
     IN  /\ Commit(r.heap)
         /\ held' = [held EXCEPT ![r.ret] = @ + 1]
         /\ last' = Call0("new", NULL, <<>>, r.ret, FALSE)
  /\ resolver' = <<>> /\ cr' = NoCairo /\ text' = NoText /\ UNCHANGED quota

ShadowRef(s) ==
  /\ CanHold
  /\ LET r == gtk_shadow_ref(Heap, s)
     IN  /\ Commit(r.heap)
         /\ held' = [held EXCEPT ![s] = @ + 1]
         /\ last' = Call0("ref", s, <<>>, r.ret, FALSE)
  /\ resolver' = <<>> /\ cr' = NoCairo /\ text' = NoText /\ UNCHANGED quota

ShadowUnref(s) ==
  /\ Commit(gtk_shadow_unref(Heap, s))
  /\ held' = [held EXCEPT ![s] = @ - 1]
  /\ last' = Call0("unref", s, <<>>, NULL, FALSE)
  /\ resolver' = <<>> /\ cr' = NoCairo /\ text' = NoText /\ UNCHANGED quota

ShadowGetResolved(s) ==
  /\ last' = Call0("get_resolved", s, <<>>, NULL, gtk_shadow_get_resolved(Heap, s))
  /\ Commit(GetResolvedStores(Heap, s))
  /\ UNCHANGED held
  /\ resolver' = <<>> /\ cr' = NoCairo /\ text' = NoText /\ UNCHANGED quota

\* The arguments the CSS parser passes to _gtk_shadow_append: offsets, radius
\* and spread as gdouble (in halves), the inset flag, the symbolic color; and
\* the build that converts them (all are in the range of gint16 here, so one
\* build stands for all).
AppendInputs ==
  { <<-2, 6, 0, 10, TRUE, 2, "wrap">>,      \* inset -1 3 (no radius) 5 <color 2>
    <<4, 4, 0, 0, FALSE, NULL, "wrap">> }   \* no symbolic color

\* Without a symbolic color the call returns before it allocates.
ShadowAppend(s, in) ==
  /\ in[6] = NULL \/ Room(1)
  /\ Commit(gtk_shadow_append(Heap, s, in[1], in[2], in[3], in[4], in[5], in[6], in[7]))
  /\ last' = Call0("append", s, in, NULL, FALSE)
  /\ UNCHANGED held
  /\ resolver' = <<>> /\ cr' = NoCairo /\ text' = NoText /\ UNCHANGED quota

ShadowResolve(s, props) ==
  /\ CanHold
  /\ shadows[s].resolved \/ Room(1 + Len(shadows[s].elements))
  /\ LET r == gtk_shadow_resolve(Heap, s, props)
     IN  /\ Commit(r.heap)
         /\ held' = IF r.ret = NULL THEN held ELSE [held EXCEPT ![r.ret] = @ + 1]
         /\ last' = Call0("resolve", s, <<>>, r.ret, FALSE)
         /\ resolver' = r.log
  /\ cr' = NoCairo /\ text' = NoText /\ UNCHANGED quota

ShadowToString(s) ==
  /\ text' = gtk_shadow_to_string(Heap, s)
  /\ last' = Call0("to_string", s, <<>>, NULL, FALSE)
  /\ Commit(ToStringStores(Heap, s))
  /\ UNCHANGED held
  /\ resolver' = <<>> /\ cr' = NoCairo /\ UNCHANGED quota

PaintLayout(s, c) ==
  /\ cr' = gtk_text_shadow_paint_layout(Heap, s, c)
  /\ last' = Call0("paint_layout", s, <<c>>, NULL, FALSE)
  /\ Commit(PaintLayoutStores(Heap, s))
  /\ UNCHANGED held
  /\ resolver' = <<>> /\ text' = NoText /\ UNCHANGED quota

Next ==
  \/ ShadowNew
  \/ \E s \in Held : ShadowRef(s)
  \/ \E s \in Held : ShadowUnref(s)
  \/ \E s \in Held : ShadowGetResolved(s)
  \/ \E s \in Held, in \in AppendInputs : ShadowAppend(s, in)
  \/ \E s \in Held, props \in PropertySets : ShadowResolve(s, props)
  \/ \E s \in Held : ShadowToString(s)
  \/ \E s \in Held, c \in CairoInputs : PaintLayout(s, c)

Spec == Init /\ [][Next]_vars

(***************************************************************************)
(* One call on a list the parser built: _gtk_shadow_new, up to MaxLen      *)
(* appends and, for a resolved list, one _gtk_shadow_resolve.              *)
(***************************************************************************)
\* What the parser appends: the symbolic color is never NULL.
BuildInputs ==
  { <<4, 4, 0, 0, FALSE, 1, "wrap">>,       \* 2 2 <color 1>
    <<-2, 6, 0, 10, TRUE, 2, "wrap">> }     \* inset -1 3 (no radius) 5 <color 2>

BuildSeqs == UNION {[1..k -> BuildInputs] : k \in 0..MaxLen}

RECURSIVE BuildAppends(_, _, _)
BuildAppends(h, shadow, ins) ==
  IF ins = <<>> THEN h
  ELSE LET in == Head(ins)
       IN  BuildAppends(gtk_shadow_append(h, shadow, in[1], in[2], in[3], in[4], in[5],
                                          in[6], in[7]),
                        shadow, Tail(ins))

\* The heap after new and the appends of ins, and after resolve against
\* props when that is asked for and succeeds; `held` is what the caller holds.
Built(ins, resolve, props) ==
  LET n == gtk_shadow_new(EmptyHeap)
      h == BuildAppends(n.heap, n.ret, ins)
      r == gtk_shadow_resolve(h, n.ret, props)
  IN  IF resolve /\ r.ret # NULL
      THEN [heap |-> r.heap,
            held |-> [a \in ShadowAddrs |-> IF a \in {n.ret, r.ret} THEN 1 ELSE 0]]
      ELSE [heap |-> h,
            held |-> [a \in ShadowAddrs |-> IF a = n.ret THEN 1 ELSE 0]]

InitCall ==
  \E ins \in BuildSeqs, resolve \in BOOLEAN, props \in PropertySets :
    LET b == Built(ins, resolve, props)
    IN  /\ shadows = b.heap.shadows
        /\ elems = b.heap.elems
        /\ symrefs = b.heap.symrefs
        /\ held = b.held
        /\ last = Call0("none", NULL, <<>>, NULL, FALSE)
        /\ resolver = <<>>
        /\ cr = NoCairo
        /\ text = NoText
        /\ quota = 2 + 2 * MaxLen

\* Arguments of _gtk_shadow_append that are not whole numbers of the range of
\* gint16: 1.5, 32768 and -32769, under either build.
WideAppendInputs ==
  { <<3, 4, 0, 0, FALSE, 1, "wrap">>,             \* 1.5 2 <color 1>
    <<4, 65536, 0, 0, FALSE, 1, "wrap">>,         \* 2 32768 <color 1>
    <<4, 65536, 0, 0, FALSE, 1, "saturate">>,
    <<-65538, 4, 5, -1, TRUE, 2, "wrap">>,        \* inset -32769 2 2.5 -0.5 <color 2>
    <<-65538, 4, 5, -1, TRUE, 2, "saturate">> }

\* The first call on the built list, and no call after it.
NextCall ==
  \/ last.op = "none" /\ ShadowNew
  \/ \E s \in Held : last.op = "none" /\ ShadowRef(s)
  \/ \E s \in Held : last.op = "none" /\ ShadowUnref(s)
  \/ \E s \in Held : last.op = "none" /\ ShadowGetResolved(s)
  \/ \E s \in Held, in \in AppendInputs \cup WideAppendInputs :
       last.op = "none" /\ ShadowAppend(s, in)
  \/ \E s \in Held, props \in PropertySets : last.op = "none" /\ ShadowResolve(s, props)
  \/ \E s \in Held : last.op = "none" /\ ShadowToString(s)
  \/ \E s \in Held, c \in CairoInputs : last.op = "none" /\ PaintLayout(s, c)

SpecCall == InitCall /\ [][NextCall]_vars

(***************************************************************************)
(* One element on its own: shadow_element_new and shadow_element_to_string *)
(* over a wider range of arguments than the parser passes above.           *)
(***************************************************************************)
\* hoffset, voffset, radius, spread (gdouble, in halves), inset, color,
\* symbolic color, and the build that converts.
ElementInputs ==
  {-2, 0, 3} \X {4, 65536, -65538} \X {-8, 0, 6} \X {-2, 0, 10} \X BOOLEAN
    \X {<<>>, <<ZeroColor>>, <<1>>} \X {NULL, 1, 2} \X Builds

InitElement ==
  /\ shadows = [a \in ShadowAddrs |-> NoShadow]
  /\ elems = [a \in ElemAddrs |-> NoElement]
  /\ symrefs = [c \in SymColors |-> 0]
  /\ held = [a \in ShadowAddrs |-> 0]
  /\ \E in \in ElementInputs : last = Call0("element_input", NULL, in, NULL, FALSE)
  /\ resolver = <<>>
  /\ cr = NoCairo
  /\ text = NoText
  /\ quota = 1

ElementToString ==
  /\ last.op = "element_input"
  /\ LET in == last.args
         r == shadow_element_new(Heap, in[1], in[2], in[3], in[4], in[5], in[6], in[7], in[8])
     IN  /\ Commit(r.heap)
         /\ text' = [ret |-> <<shadow_element_to_string(r.heap.elems[r.ret])>>,
                     temps |-> <<>>]
         /\ last' = Call0("element_to_string", NULL, in, r.ret, FALSE)
  /\ UNCHANGED <<held, resolver, cr, quota>>

NextElement == ElementToString

SpecElement == InitElement /\ [][NextElement]_vars
(***************************************************************************)
(* Properties.                                                             *)
(***************************************************************************)
\* The elements of list s, as records, in list order.
ElementsOf(s) == [i \in 1..Len(shadows[s].elements) |-> elems[shadows[s].elements[i]]]

Painted == last.op = "paint_layout"

\* The calls of the most recent paint after the move_to that sets the anchor.
LayerCalls ==
  IF last.args[1].has_current_point THEN cr.calls ELSE Tail(cr.calls)

\* The six calls that paint element e, in order.
LayerOf(e) ==
  << Call("save", 0, 0, 0),
     Call("rel_move_to", 2 * e.hoffset, 2 * e.voffset, 0),
     Call("set_source_rgba", 0, 0, e.color),
     "fill_layout",
     Call("rel_move_to", 2 * (0 - e.hoffset), 2 * (0 - e.voffset), 0),
     Call("restore", 0, 0, 0) >>

\* C1: painting a list of N elements makes exactly N fill calls, and the
\* calls after the anchor are N groups of six, the k-th group being save,
\* rel_move_to (+hoffset, +voffset), set source, fill, rel_move_to (-hoffset,
\* -voffset), restore of the k-th element counted from the end of the list.
C1_PaintReverseOrder ==
  Painted =>
    LET es == ElementsOf(last.shadow)
        n == Len(es)
        cs == LayerCalls
    IN  /\ Cardinality({i \in 1..Len(cr.calls) : cr.calls[i].call = "fill_layout"}) = n
        /\ Len(cs) = 6 * n
        /\ \A k \in 1..n :
             LET e == es[n + 1 - k]
                 want == LayerOf(e)
             IN  \A j \in 1..6 :
                   IF j = 4 THEN cs[6 * (k - 1) + j].call = "fill_layout"
                   ELSE cs[6 * (k - 1) + j] = want[j]

\* A resolved list of two elements with different offsets and colors was painted.
C1_Witness ==
  /\ Painted
  /\ LET es == ElementsOf(last.shadow)
     IN  /\ Len(es) = 2
         /\ shadows[last.shadow].resolved
         /\ es[1].color # es[2].color
         /\ es[1].hoffset # es[2].hoffset
LiveShadows == {a \in ShadowAddrs : shadows[a].state = "live"}
LiveElems == {a \in ElemAddrs : elems[a].state = "live"}

\* Element i of list s is symbolic / concrete.
IsSymbolic(e) == e.symbolic_color # NULL /\ ~e.color_set
IsConcrete(e) == e.symbolic_color = NULL /\ e.color_set

\* The resolver turned down one of the symbolic colors it was called on.
ResolverFailed(log) == \E i \in 1..Len(log) : log[i].color = <<>>

\* The step is a call of _gtk_shadow_resolve on a list then unresolved / resolved.
ResolveOfUnresolved == last'.op = "resolve" /\ ~shadows[last'.shadow].resolved
ResolveOfResolved == last'.op = "resolve" /\ shadows[last'.shadow].resolved

\* C2: when an element of an unresolved list fails to resolve, the call
\* returns NULL and the live lists and the live elements after the call are
\* those before it: the list under construction and its elements are gone.
C2_FailFastResolve ==
  [][ (ResolveOfUnresolved /\ ResolverFailed(resolver'))
        => /\ last'.ret = NULL
           /\ LiveShadows' = LiveShadows
           /\ LiveElems' = LiveElems
           /\ \A a \in ShadowAddrs : shadows'[a].state = "live" => held'[a] > 0 ]_vars

\* A resolve failed at the second element, after building a first one and freeing it.
C2_Witness ==
  /\ last.op = "resolve" /\ last.ret = NULL
  /\ Len(resolver) = 2 /\ resolver[1].color # <<>> /\ resolver[2].color = <<>>
  /\ \E e \in ElemAddrs : elems[e].state = "freed"
  /\ \E a \in ShadowAddrs : shadows[a].state = "freed"

\* C3: a call of resolve on an unresolved list leaves that list as it was,
\* whether it succeeds or fails: same flag, same reference count, same
\* cells, and every element of it unchanged (still symbolic).
C3_ResolveLeavesSource ==
  [][ ResolveOfUnresolved
        => LET s == last'.shadow
           IN  /\ shadows'[s] = shadows[s]
               /\ ~shadows'[s].resolved
               /\ \A i \in 1..Len(shadows[s].elements) :
                    LET e == shadows[s].elements[i]
                    IN  elems'[e] = elems[e] /\ IsSymbolic(elems'[e]) ]_vars

\* A two-element list was resolved into a new list.
C3_Witness ==
  /\ last.op = "resolve" /\ last.ret # NULL /\ last.ret # last.shadow
  /\ Len(shadows[last.shadow].elements) = 2
  /\ Len(shadows[last.ret].elements) = 2
  /\ ~shadows[last.shadow].resolved

\* C4: a call of resolve on a list whose flag is set returns that list, calls
\* the resolver on nothing, creates and changes no element, and changes of the
\* lists only the reference count of that list, by one.
C4_ResolveResolvedIsRef ==
  [][ ResolveOfResolved
        => LET s == last'.shadow
           IN  /\ last'.ret = s
               /\ resolver' = <<>>
               /\ shadows' = [shadows EXCEPT ![s].ref_count = @ + 1]
               /\ elems' = elems
               /\ symrefs' = symrefs ]_vars

\* The result of a resolve was resolved again and came back itself.
C4_Witness ==
  /\ last.op = "resolve" /\ last.ret = last.shadow
  /\ shadows[last.shadow].resolved
  /\ shadows[last.shadow].ref_count = 2
  /\ Len(shadows[last.shadow].elements) >= 1

\* C5: a list is destroyed at the unref that finds its reference count 1 and
\* at no other call; a live list has a reference count of at least 1; what is
\* freed is freed once and stays freed; and the unref that destroys a list
\* frees every element of it.
C5_DestroyedAtLastUnref ==
  [][ /\ \A a \in ShadowAddrs :
           /\ shadows'[a].state = "live" => shadows'[a].ref_count >= 1
           /\ shadows'[a].state # "corrupt"
           /\ shadows[a].state = "freed" => shadows'[a].state = "freed"
           /\ (shadows[a].state = "live" /\ shadows'[a].state # "live")
                <=> (last'.op = "unref" /\ last'.shadow = a /\ shadows[a].ref_count = 1)
           /\ (shadows[a].state = "live" /\ shadows'[a].state # "live")
                => \A i \in 1..Len(shadows[a].elements) :
                     /\ elems[shadows[a].elements[i]].state = "live"
                     /\ elems'[shadows[a].elements[i]].state = "freed"
      /\ \A e \in ElemAddrs :
           /\ elems'[e].state # "corrupt"
           /\ elems[e].state = "freed" => elems'[e].state = "freed" ]_vars

\* ref, unref, unref: a list of two elements was destroyed by the second unref.
C5_Witness ==
  /\ last.op = "unref"
  /\ shadows[last.shadow].state = "freed"
  /\ Cardinality({e \in ElemAddrs : elems[e].state = "freed"}) = 2
  /\ \A a \in ShadowAddrs : shadows[a].state # "live"
AllConcrete(s) == \A i \in 1..Len(shadows[s].elements) : IsConcrete(elems[shadows[s].elements[i]])
AllSymbolic(s) == \A i \in 1..Len(shadows[s].elements) : IsSymbolic(elems[shadows[s].elements[i]])

\* C6 as stated: every live list is resolved exactly when all its elements
\* are concrete.
C6_ResolvedIffAllConcrete ==
  \A a \in LiveShadows : shadows[a].resolved <=> AllConcrete(a)

\* Concrete elements first, then the symbolic ones appended after them.
ConcreteThenSymbolic(s) ==
  \A i, j \in 1..Len(shadows[s].elements) :
    (i < j /\ IsSymbolic(elems[shadows[s].elements[i]]))
      => IsSymbolic(elems[shadows[s].elements[j]])

\* C6, amended: a live list whose flag is clear holds symbolic elements only;
\* a live list whose flag is set holds the concrete elements the resolver
\* built for it, followed by whatever was appended to it since; a list comes
\* out of new with the flag clear and out of a successful resolve with the
\* flag set and concrete elements only; and no call changes the flag of a
\* list that exists.
C6_FlagSetOnlyByResolver ==
  [][ \A a \in ShadowAddrs :
        /\ (shadows'[a].state = "live" /\ ~shadows'[a].resolved) => AllSymbolic(a)'
        /\ (shadows'[a].state = "live" /\ shadows'[a].resolved) => ConcreteThenSymbolic(a)'
        /\ (shadows[a].state = "live" /\ shadows'[a].state = "live")
             => shadows'[a].resolved = shadows[a].resolved
        /\ (shadows[a].state # "live" /\ shadows'[a].state = "live")
             => /\ shadows'[a].resolved <=> last'.op = "resolve"
                /\ shadows'[a].resolved => AllConcrete(a)' ]_vars

\* A resolved list was appended to: its flag is still set, and its second
\* element is symbolic.
C6_Witness ==
  /\ last.op = "append"
  /\ shadows[last.shadow].state = "live" /\ shadows[last.shadow].resolved
  /\ Len(shadows[last.shadow].elements) = 2
  /\ IsConcrete(elems[shadows[last.shadow].elements[1]])
  /\ IsSymbolic(elems[shadows[last.shadow].elements[2]])

\* C7: every element of a live list either holds a symbolic color and was
\* given no color, or was given a color and holds no symbolic color.
C7_SymbolicXorConcrete ==
  \A a \in LiveShadows : \A i \in 1..Len(shadows[a].elements) :
    LET e == elems[shadows[a].elements[i]]
    IN  /\ e.state = "live"
        /\ IsSymbolic(e) \/ IsConcrete(e)
        /\ ~(IsSymbolic(e) /\ IsConcrete(e))
        /\ (e.symbolic_color # NULL) # e.color_set

\* A symbolic element and the concrete element resolved from it are both live,
\* and an append without a symbolic color has just been made.
C7_Witness ==
  /\ last.op = "append" /\ last.args[6] = NULL
  /\ \E a, b \in LiveShadows :
       /\ Len(shadows[a].elements) >= 1 /\ IsSymbolic(elems[shadows[a].elements[1]])
       /\ Len(shadows[b].elements) >= 1 /\ IsConcrete(elems[shadows[b].elements[1]])
Stringified == last.op = "to_string"

\* The texts of the first n elements of es, each after the one before it,
\* with ", " between two of them.
RECURSIVE JoinedText(_, _)
JoinedText(es, n) ==
  IF n = 1 THEN shadow_element_to_string(es[1])
  ELSE JoinedText(es, n - 1) \o ", " \o shadow_element_to_string(es[n])

\* C8: for a list of N >= 1 elements _gtk_shadow_to_string returns the
\* texts of the elements in list order with ", " between consecutive ones
\* and nothing before the first or after the last.
C8_ToStringJoinsInOrder ==
  (Stringified /\ Len(shadows[last.shadow].elements) >= 1)
    => text.ret = <<JoinedText(ElementsOf(last.shadow), Len(shadows[last.shadow].elements))>>

\* A list of three elements, the first unlike the last, was serialised.
C8_Witness ==
  /\ Stringified
  /\ Len(shadows[last.shadow].elements) = 3
  /\ ElementsOf(last.shadow)[1] # ElementsOf(last.shadow)[3]
  /\ text.ret # <<>>

\* The tokens of an element's text.
TokensOf(e) ==
  (IF e.inset THEN <<"inset">> ELSE <<>>)
    \o <<PrintfD(e.hoffset), PrintfD(e.voffset)>>
    \o (IF e.radius = 0 THEN <<>> ELSE <<PrintfD(e.radius)>>)
    \o (IF e.spread = 0 THEN <<>> ELSE <<PrintfD(e.spread)>>)
    \o <<IF e.symbolic_color # NULL
         THEN gtk_symbolic_color_to_string(e.symbolic_color)
         ELSE gdk_rgba_to_string(e.color)>>

RECURSIVE SpaceSeparated(_)
SpaceSeparated(tokens) ==
  IF Len(tokens) = 1 THEN tokens[1]
  ELSE tokens[1] \o " " \o SpaceSeparated(Tail(tokens))

\* C9: the text of an element is its tokens with one space between two of
\* them: "inset" when the flag is set, hoffset, voffset, radius unless it is
\* 0, spread unless it is 0, and the text of the symbolic color when there
\* is one, of the color otherwise.
C9_ElementText ==
  last.op = "element_to_string"
    => text.ret = <<SpaceSeparated(TokensOf(elems[last.ret]))>>

\* An inset element with a negative radius, no spread and a concrete color
\* was serialised.
C9_Witness ==
  /\ last.op = "element_to_string"
  /\ elems[last.ret].inset
  /\ elems[last.ret].radius < 0
  /\ elems[last.ret].spread = 0
  /\ elems[last.ret].symbolic_color = NULL
  /\ text.ret # <<>>

\* C10: _gtk_shadow_to_string returns NULL exactly for a list without
\* elements, and a non-empty string for every other list.
C10_EmptyListHasNoText ==
  Stringified =>
    /\ text.ret = <<>> <=> Len(shadows[last.shadow].elements) = 0
    /\ text.ret # <<>> => text.ret[1] # ""

\* The empty list that resolving an empty list returned was serialised.
C10_Witness ==
  /\ Stringified
  /\ shadows[last.shadow].resolved
  /\ Len(shadows[last.shadow].elements) = 0
  /\ text.ret = <<>>

\* C11: a call of _gtk_shadow_append with a symbolic color puts one element
\* that did not exist before at the end of the list, symbolic and holding that
\* color, and leaves the cells before it, the elements they point to, the
\* reference count, the flag and every other list as they were; a call with a
\* NULL symbolic color leaves every list, every element and every reference
\* on a symbolic color as it was.
C11_AppendAddsOneAtEnd ==
  [][ last'.op = "append"
        => LET s == last'.shadow
               color == last'.args[6]
               old == shadows[s].elements
               new == shadows'[s].elements
           IN  IF color # NULL
               THEN /\ Len(new) = Len(old) + 1
                    /\ SubSeq(new, 1, Len(old)) = old
                    /\ elems[new[Len(new)]].state = "unalloc"
                    /\ elems'[new[Len(new)]].state = "live"
                    /\ IsSymbolic(elems'[new[Len(new)]])
                    /\ elems'[new[Len(new)]].symbolic_color = color
                    /\ \A e \in ElemAddrs : e # new[Len(new)] => elems'[e] = elems[e]
                    /\ shadows' = [shadows EXCEPT ![s].elements = new]
               ELSE /\ shadows' = shadows
                    /\ elems' = elems
                    /\ symrefs' = symrefs ]_vars

\* A symbolic element was appended to a resolved list after its one concrete
\* element.
C11_Witness ==
  /\ last.op = "append" /\ last.args[6] # NULL
  /\ shadows[last.shadow].resolved
  /\ Len(shadows[last.shadow].elements) = 2
  /\ shadows[last.shadow].ref_count = 1
  /\ IsSymbolic(elems[shadows[last.shadow].elements[2]])

\* The element the most recent _gtk_shadow_append added.
Appended == elems[shadows[last.shadow].elements[Len(shadows[last.shadow].elements)]]

\* C12 as stated: after an append that adds an element, the hoffset,
\* voffset, radius and spread the element holds, which are what is serialised
\* and what the painter moves by, are the values passed in.
C12_NumbersStoredUnchanged ==
  (last.op = "append" /\ last.args[6] # NULL)
    => /\ IntToDouble(Appended.hoffset) = last.args[1]
       /\ IntToDouble(Appended.voffset) = last.args[2]
       /\ IntToDouble(Appended.radius) = last.args[3]
       /\ IntToDouble(Appended.spread) = last.args[4]

\* C13: a call of resolve on an unresolved list of N elements during which
\* the resolver turned nothing down returns a list that did not exist before
\* the call, with reference count 1, the flag set and N elements, none of which
\* existed before; the i-th has the hoffset, voffset, radius, spread and inset
\* of the i-th element of the source, the color the resolver gave for that
\* element's symbolic color, and no symbolic color.
C13_ResolveBuildsConcreteCopy ==
  [][ (ResolveOfUnresolved /\ ~ResolverFailed(resolver'))
        => LET s == last'.shadow
               r == last'.ret
               n == Len(shadows[s].elements)
           IN  /\ r # NULL /\ r # s
               /\ shadows[r].state = "unalloc"
               /\ shadows'[r].state = "live"
               /\ shadows'[r].ref_count = 1
               /\ shadows'[r].resolved
               /\ Len(shadows'[r].elements) = n
               /\ Len(resolver') = n
               /\ \A i \in 1..n :
                    LET src == elems[shadows[s].elements[i]]
                        a == shadows'[r].elements[i]
                        dst == elems'[a]
                    IN  /\ elems[a].state = "unalloc" /\ dst.state = "live"
                        /\ dst.hoffset = src.hoffset
                        /\ dst.voffset = src.voffset
                        /\ dst.radius = src.radius
                        /\ dst.spread = src.spread
                        /\ dst.inset = src.inset
                        /\ resolver'[i].symbolic_color = src.symbolic_color
                        /\ dst.color_set /\ <<dst.color>> = resolver'[i].color
                        /\ dst.symbolic_color = NULL ]_vars

\* A list of three elements, the first and the second of different offsets,
\* spreads and colors, was resolved into a new list of three.
C13_Witness ==
  /\ last.op = "resolve" /\ last.ret # NULL /\ last.ret # last.shadow
  /\ Len(shadows[last.ret].elements) = 3
  /\ LET es == ElementsOf(last.ret)
     IN  /\ es[1].color # es[2].color
         /\ es[1].spread # es[2].spread
         /\ es[1].inset # es[2].inset

\* C14: the calls of the resolver that a resolve of an unresolved list makes
\* are one call per cell of a prefix of the list, in list order, each on the
\* symbolic color of that cell's element; every call but the last succeeded;
\* and the prefix is the whole list unless its last call failed.
C14_ResolverCalledInOrder ==
  [][ ResolveOfUnresolved
        => LET l == shadows[last'.shadow].elements
               k == Len(resolver')
           IN  /\ k <= Len(l)
               /\ \A i \in 1..k :
                    /\ resolver'[i].element = l[i]
                    /\ resolver'[i].symbolic_color = elems[l[i]].symbolic_color
                    /\ i < k => resolver'[i].color # <<>>
               /\ k = Len(l) \/ resolver'[k].color = <<>>
               /\ last'.ret = NULL <=> ResolverFailed(resolver') ]_vars

\* The resolver turned down the second of three elements, and was not called
\* on the third.
C14_Witness ==
  /\ last.op = "resolve" /\ ~shadows[last.shadow].resolved
  /\ Len(shadows[last.shadow].elements) = 3
  /\ Len(resolver) = 2
  /\ resolver[1].color # <<>> /\ resolver[2].color = <<>>
  /\ elems[shadows[last.shadow].elements[3]].symbolic_color = resolver[1].symbolic_color

\* The addresses of the elements of list s.
CellsOf(s) == {shadows[s].elements[i] : i \in 1..Len(shadows[s].elements)}

\* C15: no element belongs to two live lists, so a list and the list resolved
\* from it share none; and the unref that destroys a list leaves every other
\* live list live, with its reference count, flag and cells as they were and
\* each of its elements live and as it was.
C15_IndependentLifetimes ==
  [][ /\ \A a, b \in LiveShadows' : a # b => CellsOf(a)' \cap CellsOf(b)' = {}
      /\ (last'.op = "unref" /\ shadows'[last'.shadow].state # "live")
           => \A b \in LiveShadows \ {last'.shadow} :
                /\ shadows'[b] = shadows[b]
                /\ \A e \in CellsOf(b) :
                     elems[e].state = "live" /\ elems'[e] = elems[e] ]_vars

\* The source of a resolve was released to destruction, its element freed
\* with it; the list resolved from it is live and holds its one element.
C15_Witness ==
  /\ last.op = "unref"
  /\ shadows[last.shadow].state = "freed"
  /\ \E e \in ElemAddrs : elems[e].state = "freed"
  /\ \E b \in LiveShadows :
       /\ shadows[b].resolved /\ shadows[b].ref_count = 1
       /\ Len(shadows[b].elements) = 1
       /\ elems[shadows[b].elements[1]].state = "live"
       /\ IsConcrete(elems[shadows[b].elements[1]])
       /\ b > last.shadow

\* The live elements that hold symbolic color c, and those among the cells of
\* list s.
HoldersOf(c) == {e \in ElemAddrs : elems[e].state = "live" /\ elems[e].symbolic_color = c}
HoldersIn(s, c) == {i \in 1..Len(shadows[s].elements) :
                      elems[shadows[s].elements[i]].symbolic_color = c}

\* C16: after every call the references this file holds on a symbolic color
\* are as many as the live elements that hold it; an append that adds an
\* element takes one reference, on the color passed, and touches no other; a
\* resolve, failed or not, leaves every count as it was; the unref that
\* destroys a list gives back, for each color, one reference per element of
\* that list holding it, and any other unref none.
C16_SymbolicRefsBalanced ==
  [][ /\ \A c \in SymColors : symrefs'[c] = Cardinality(HoldersOf(c))'
      /\ (last'.op = "append" /\ last'.args[6] # NULL)
           => symrefs' = [symrefs EXCEPT ![last'.args[6]] = @ + 1]
      /\ last'.op = "resolve" => symrefs' = symrefs
      /\ last'.op = "unref"
           => IF shadows'[last'.shadow].state = "live"
              THEN symrefs' = symrefs
              ELSE \A c \in SymColors :
                     symrefs'[c] = symrefs[c] - Cardinality(HoldersIn(last'.shadow, c)) ]_vars

\* Two lists held elements with the same symbolic color; the one of two
\* elements was destroyed, and the one element of the other still has its
\* reference.
C16_Witness ==
  /\ last.op = "unref"
  /\ shadows[last.shadow].state = "freed"
  /\ Cardinality({e \in ElemAddrs : elems[e].state = "freed"}) = 2
  /\ \E b \in LiveShadows, c \in SymColors :
       /\ ~shadows[b].resolved
       /\ Len(shadows[b].elements) = 1
       /\ HoldersIn(b, c) # {}
       /\ symrefs[c] = 1

\* The context handed to the most recent paint, and the point its layers are
\* placed from: the current point of that context, or the origin.
PaintedOn == last.args[1]
Anchor == IF PaintedOn.has_current_point THEN <<PaintedOn.x, PaintedOn.y>> ELSE <<0, 0>>

\* The fill calls of the most recent paint, in the order made.
Fills == SelectSeq(cr.calls, LAMBDA call : call.call = "fill_layout")

\* C17: a paint on a context without a current point starts with
\* move_to (0, 0), whatever the length of the list, and a paint on a context
\* with one makes no move_to; the k-th fill, which is for the k-th element
\* from the end, is at the anchor moved by the hoffset and voffset of that
\* element alone; and the current point after the paint is the anchor.
C17_PaintAnchored ==
  Painted =>
    LET es == ElementsOf(last.shadow)
        n == Len(es)
    IN  /\ IF PaintedOn.has_current_point
           THEN \A i \in 1..Len(cr.calls) : cr.calls[i].call # "move_to"
           ELSE /\ cr.calls # <<>> /\ cr.calls[1] = Call("move_to", 0, 0, 0)
                /\ \A i \in 2..Len(cr.calls) : cr.calls[i].call # "move_to"
        /\ Len(Fills) = n
        /\ \A k \in 1..n :
             /\ Fills[k].x = Anchor[1] + IntToDouble(es[n + 1 - k].hoffset)
             /\ Fills[k].y = Anchor[2] + IntToDouble(es[n + 1 - k].voffset)
        /\ cr.has_current_point
        /\ <<cr.x, cr.y>> = Anchor

\* A list of three elements, each with an offset, was painted on a context
\* that had a current point away from the origin.
C17_Witness ==
  /\ Painted
  /\ PaintedOn.has_current_point /\ PaintedOn.x # 0
  /\ Len(shadows[last.shadow].elements) = 3
  /\ \A i \in 1..3 : ElementsOf(last.shadow)[i].hoffset # 0
  /\ Len(Fills) = 3

\* C18: a call of _gtk_text_shadow_paint_layout, _gtk_shadow_to_string or
\* _gtk_shadow_get_resolved leaves every list (cells, order, reference count,
\* flag), every element and every reference on a symbolic color as it was;
\* and a paint calls the resolver on nothing and sets as source the color
\* each element holds, which for a symbolic element is the zeroed one.
C18_ReadOnlyCallsLeaveList ==
  [][ /\ last'.op \in {"paint_layout", "to_string", "get_resolved"}
           => /\ shadows' = shadows
              /\ elems' = elems
              /\ symrefs' = symrefs
      /\ last'.op = "get_resolved" => last'.flag = shadows[last'.shadow].resolved
      /\ last'.op = "paint_layout"
           => /\ resolver' = <<>>
              /\ LET l == shadows[last'.shadow].elements
                     fills == SelectSeq(cr'.calls, LAMBDA call : call.call = "fill_layout")
                 IN  /\ Len(fills) = Len(l)
                     /\ \A k \in 1..Len(l) :
                          LET e == elems[l[Len(l) + 1 - k]]
                          IN  /\ fills[k].color = e.color
                              /\ IsSymbolic(e) => fills[k].color = ZeroColor ]_vars

\* An unresolved list of two elements was painted.
C18_Witness ==
  /\ Painted
  /\ ~shadows[last.shadow].resolved
  /\ shadows[last.shadow].ref_count = 1
  /\ Len(shadows[last.shadow].elements) = 2
  /\ resolver = <<>>
  /\ \A k \in 1..Len(Fills) : Fills[k].color = ZeroColor

\* C19 as stated: when _gtk_shadow_to_string returns, no string it
\* allocated other than the one it returns is still allocated.
C19_ToStringFreesTemporaries ==
  Stringified => text.temps = <<>>
====
